---- MODULE Spec2Model ----
(***************************************************************************)
(* Model of the transaction submission pipeline of leap.cleos.CLEOS:       *)
(*   - _pack_abi_data, the ABI type dispatcher (cleos.py:93-155);          *)
(*   - _create_and_push_tx, the blocking submission loop                   *)
(*     (cleos.py:1039-1113), mode "sync";                                  *)
(*   - _a_create_and_push_tx, the cooperative submission loop              *)
(*     (cleos.py:157-227), mode "async".                                   *)
(*   - push_action / push_actions, the public wrappers                     *)
(*     (cleos.py:1116-1191);                                               *)
(*   - load_abi / get_loaded_abi, the ABI registry (cleos.py:510-521);     *)
(*   - import_key / assign_key, the key store (cleos.py:921-950);          *)
(*   - create_account / create_account_staked (cleos.py:1193-1302);        *)
(*   - get_table / aget_table (cleos.py:1304-1376), get_node_activations   *)
(*     (cleos.py:558-591) and wait_blocks (cleos.py:1479-1496);            *)
(*   - deploy_contract (cleos.py:307-423).                                 *)
(* The signer (sign_tx), the node (push_transaction endpoint) and the      *)
(* clock are doubles: the k-th invocation of a double within one call      *)
(* yields the k-th entry of its script, so that both loops can be run on   *)
(* the same sequence of signer outcomes and node responses.                *)
(***************************************************************************)
EXTENDS Integers, Sequences, FiniteSets, TLC

VARIABLES
    loaded_abis,   \* CLEOS._loaded_abis: account -> ABI
    actions,       \* the caller's list of actions
    max_cpu_usage_ms, \* the caller's resource limit
    tick,          \* seconds the clock advances between two utcnow() readings
    sigScript,     \* signer double: outcome of the k-th sign_tx of a call
    nodeScript,    \* node double: outcome of the k-th POST of a call
    pc,            \* mode -> position of the call
    retries,       \* mode -> local variable retries
    res,           \* mode -> local variable res
    exc,           \* mode -> exception that left the call ("" when none)
    tx,            \* mode -> local variable tx of the current attempt
    trace,         \* mode -> history of the steps the call performed
    packed,        \* result of a direct _pack_abi_data call
    push,          \* argument push of _create_and_push_tx
    tapos,         \* mode -> locals ref_block_num, ref_block_prefix
    ret,           \* mode -> value the call returned
    api,           \* the public method that made the blocking call
    api_out,       \* what that public method returned
    loads,         \* history of the load_abi calls
    got,           \* the last read of the registry and what it returned
    keys,          \* CLEOS.keys: account -> public key
    private_keys,  \* CLEOS.private_keys: account -> private key
    _key_to_acc,   \* CLEOS._key_to_acc: public key -> accounts it was imported for
    key_out,       \* the last import_key / assign_key call and how it ended
    tasks,         \* task -> locals of its _a_create_and_push_tx call
    tbl,           \* locals of a get_table / aget_table call and the table it reads
    feat,          \* locals of a get_node_activations call and the node it reads
    wb,            \* locals of a wait_blocks call and the node's head block
    dep            \* locals of a deploy_contract call

\* state of the public wrappers push_action / push_actions
apiVars == <<api, api_out>>

\* the reads and writes of the ABI registry outside a submission
regVars == <<loads, got>>

\* the key store
keyVars == <<keys, private_keys, _key_to_acc, key_out>>

\* concurrently running calls of _a_create_and_push_tx
taskVars == <<tasks>>

\* calls that only query the node
queryVars == <<tbl, feat, wb>>

\* a contract deployment
deployVars == <<dep>>

\* state that the submission loops never write
extras == <<apiVars, regVars, keyVars, taskVars, queryVars, deployVars>>

\* arguments of a submission other than the registry
callArgs == <<actions, max_cpu_usage_ms, tick, push>>

\* locals of the two submission loops and their doubles
loopVars == <<sigScript, nodeScript, pc, retries, res, exc, tx, trace, tapos, ret>>

vars == <<loaded_abis, actions, max_cpu_usage_ms, tick, sigScript, nodeScript,
          pc, retries, res, exc, tx, trace, packed, push, tapos, ret, extras>>

inputs == <<loaded_abis, actions, max_cpu_usage_ms, tick, push>>

(***************************************************************************)
(* Bounds of the model.                                                    *)
(***************************************************************************)
MaxFields == 2      \* fields of a struct
MaxData == 3        \* values of an action's positional data list
MaxActions == 2     \* actions of one submission
MaxAttempts == 4    \* Encoding attempts of one call that the model follows
MaxSuffix == 2      \* suffixes ('[]', '?', '$') of a declared field type
MaxLoads == 3       \* load_abi calls the model follows
MaxImports == 2     \* import_key calls of one key that the model follows
MaxRows == 3        \* rows of the table a get_table call reads
MaxRequests == 4    \* requests of one get_table / aget_table call that the model follows
MaxFeatures == 502  \* activated protocol features of the target node
MaxWait == 3        \* argument n of wait_blocks
MaxHead == 6        \* head block number up to which the model follows the node

Modes == {"sync", "async"}

Max(S) == CHOOSE x \in S : \A y \in S : y <= x

SeqsUpTo(S, n) == UNION {[1..k -> S] : k \in 0..n}

(***************************************************************************)
(* Results of a call that may raise.                                       *)
(***************************************************************************)
Raise(kind) == [ok |-> FALSE, err |-> kind, out |-> <<>>]
Return(out) == [ok |-> TRUE, err |-> "", out |-> out]

(***************************************************************************)
(* Type strings.  A type string is a sequence of symbols: the bare type    *)
(* name as one symbol, followed by the suffix characters, so that          *)
(* "uint8[]" is <<"uint8", "[", "]">> and "name?" is <<"name", "?">>.      *)
(***************************************************************************)
Last1(typ) == typ[Len(typ)]                               \* typ[-1]
Last2(typ) == SubSeq(typ, Max({1, Len(typ) - 1}), Len(typ)) \* typ[-2:]
DropLast(typ, n) == SubSeq(typ, 1, Len(typ) - n)          \* typ[:-n]

(***************************************************************************)
(* DataStream: the names f for which a method pack_<f> exists, and what a  *)
(* pack call appends to the stream.  The stream is kept as the sequence of *)
(* the encoder invocations, each with its parameters.                      *)
(***************************************************************************)
PackFns == {<<"name">>, <<"asset">>, <<"symbol">>, <<"uint8">>, <<"string">>,
            <<"array">>, <<"optional">>, <<"bytes">>, <<"abi">>}

DataStream_pack(fn_name, pack_params) ==
    IF fn_name \notin PackFns
    THEN Raise("AttributeError")                      \* getattr(ds, ...)
    ELSE Return(<<[fn |-> fn_name, typ |-> pack_params.typ,
                   val |-> pack_params.val]>>)

\* str(value): a str is rendered as itself, an object as its string form
str(value) == [k |-> "str", s |-> value.s]

\* DataStream.pack_abi(value) followed by getvalue(): the raw ABI bytes
pack_abi_raw(value) == [k |-> "raw", s |-> value.s]

(***************************************************************************)
(* _pack_abi_data                                                          *)
(***************************************************************************)
\* get_loaded_abi
get_loaded_abi(loaded, account) ==
    IF account \notin DOMAIN loaded
    THEN Raise("ValueError")
    ELSE Return(loaded[account])

\* mutant of load_abi: an account's first ABI is kept
load_abi_setdefault(loaded, account, abi) ==
    IF account \in DOMAIN loaded THEN loaded
    ELSE [a \in DOMAIN loaded \cup {account} |->
              IF a = account THEN abi ELSE loaded[a]]

\* self._loaded_abis[account] = abi
load_abi(loaded, account, abi) ==
    [a \in DOMAIN loaded \cup {account} |-> IF a = account THEN abi ELSE loaded[a]]

\* [s for s in abi['structs'] if s['name'] == action['name']]
matching_structs(abi, name) == SelectSeq(abi.structs, LAMBDA s : s.name = name)

\* mutant of struct_resolved: an ambiguous action takes its first struct
struct_resolved_any(struct) == Len(struct) >= 1

\* assert len(struct) == 1
struct_resolved(struct) == Len(struct) = 1

\* keys of {f['name']: f['type'] for f in struct['fields']}, in insertion
\* order: a name that occurs again keeps the position of its first occurrence
RECURSIVE struct_fields_keys(_)
struct_fields_keys(fields) ==
    IF fields = <<>> THEN <<>>
    ELSE LET front == struct_fields_keys(SubSeq(fields, 1, Len(fields) - 1))
             k == fields[Len(fields)].name
         IN  IF \E j \in 1..Len(front) : front[j] = k
             THEN front
             ELSE Append(front, k)

\* struct_fields.get(field_name): the type of the last field of that name
struct_fields_get(fields, field_name) ==
    fields[Max({j \in 1..Len(fields) : fields[j].name = field_name})].type

\* mutant of pack_call: a '?' anywhere in the type makes it an optional
pack_call_optional_first(account, name, field_name, typ, value) ==
    IF \E i \in 1..Len(typ) : typ[i] = "?"
    THEN [fn |-> <<"optional">>, typ |-> DropLast(typ, 1), val |-> value]
    ELSE IF Last2(typ) = <<"[", "]">>
    THEN [fn |-> <<"array">>, typ |-> DropLast(typ, 2), val |-> value]
    ELSE IF Last1(typ) = "$"
    THEN [fn |-> typ, typ |-> DropLast(typ, 1), val |-> value]
    ELSE IF account = "eosio" /\ name = "setabi" /\ field_name = "abi"
    THEN [fn |-> <<"bytes">>, typ |-> <<>>, val |-> pack_abi_raw(value)]
    ELSE IF typ \in {<<"name">>, <<"asset">>, <<"symbol">>}
    THEN [fn |-> typ, typ |-> <<>>, val |-> str(value)]
    ELSE [fn |-> typ, typ |-> <<>>, val |-> value]

\* mutant of pack_call: the nested ABI case tests action and field only
pack_call_any_account(account, name, field_name, typ, value) ==
    IF Last2(typ) = <<"[", "]">>
    THEN [fn |-> <<"array">>, typ |-> DropLast(typ, 2), val |-> value]
    ELSE IF Last1(typ) = "?"
    THEN [fn |-> <<"optional">>, typ |-> DropLast(typ, 1), val |-> value]
    ELSE IF Last1(typ) = "$"
    THEN [fn |-> typ, typ |-> DropLast(typ, 1), val |-> value]
    ELSE IF name = "setabi" /\ field_name = "abi"
    THEN [fn |-> <<"bytes">>, typ |-> <<>>, val |-> pack_abi_raw(value)]
    ELSE IF typ \in {<<"name">>, <<"asset">>, <<"symbol">>}
    THEN [fn |-> typ, typ |-> <<>>, val |-> str(value)]
    ELSE [fn |-> typ, typ |-> <<>>, val |-> value]

\* lines 125-149: the pack function and its parameters for one field
pack_call(account, name, field_name, typ, value) ==
    IF Last2(typ) = <<"[", "]">>
    THEN [fn |-> <<"array">>, typ |-> DropLast(typ, 2), val |-> value]
    ELSE IF Last1(typ) = "?"
    THEN [fn |-> <<"optional">>, typ |-> DropLast(typ, 1), val |-> value]
    ELSE IF Last1(typ) = "$"
    THEN [fn |-> typ, typ |-> DropLast(typ, 1), val |-> value]
    ELSE IF account = "eosio" /\ name = "setabi" /\ field_name = "abi"
    THEN [fn |-> <<"bytes">>, typ |-> <<>>, val |-> pack_abi_raw(value)]
    ELSE IF typ \in {<<"name">>, <<"asset">>, <<"symbol">>}
    THEN [fn |-> typ, typ |-> <<>>, val |-> str(value)]
    ELSE [fn |-> typ, typ |-> <<>>, val |-> value]

\* lines 121-152: one iteration of the loop body, for one (field, value)
pack_field(account, name, field_name, typ, value) ==
    IF typ = <<>>
    THEN Raise("AssertionError")                      \* assert typ
    ELSE LET call == pack_call(account, name, field_name, typ, value)
         IN  DataStream_pack(call.fn, call)

\* lines 117-152: for _ in range(len(data)), from iteration i on
RECURSIVE pack_loop(_, _, _, _, _, _)
pack_loop(account, name, fields, data, i, ds) ==
    IF i > Len(data) THEN Return(ds)
    ELSE IF i > Len(struct_fields_keys(fields))
    THEN Raise("StopIteration")                       \* next(key_iter)
    ELSE LET field_name == struct_fields_keys(fields)[i]
             typ == struct_fields_get(fields, field_name)
             r == pack_field(account, name, field_name, typ, data[i])
         IN  IF ~r.ok THEN r
             ELSE pack_loop(account, name, fields, data, i + 1, ds \o r.out)

_pack_abi_data(loaded, action) ==
    LET abi == get_loaded_abi(loaded, action.account)
    IN  IF ~abi.ok THEN abi
        ELSE IF "structs" \notin DOMAIN abi.out
        THEN Raise("AssertionError")                  \* assert 'structs' in abi
        ELSE LET struct == matching_structs(abi.out, action.name)
             IN  IF ~struct_resolved(struct)
                 THEN Raise("AssertionError")
                 ELSE IF ~action.data.list
                 THEN Raise("TypeError")
                 ELSE pack_loop(action.account, action.name, struct[1].fields,
                                action.data.items, 1, <<>>)

(***************************************************************************)
(* The submission loop.                                                    *)
(***************************************************************************)
SYNC_RETRIES == 2
ASYNC_RETRIES == 3
EXPIRATION_SECONDS == 900

\* retries = 2 (_create_and_push_tx), retries = 3 (_a_create_and_push_tx)
retries_init(m) == IF m = "sync" THEN SYNC_RETRIES ELSE ASYNC_RETRIES

None == [none |-> TRUE]
NoTx == [none |-> TRUE]

\* get_info / a_get_info and get_tapos_info(last_irreversible_block_id)
ChainInfo == [chain_id |-> "chain-1", last_irreversible_block_id |-> "block-7"]
get_tapos_info(block_id) ==
    [ref_block_num |-> <<"num", block_id>>, ref_block_prefix |-> <<"prefix", block_id>>]

\* get_expiration(datetime.utcnow(), 900)
get_expiration(now, delay) == now + delay

\* the events of a call's history
Event(e, v) == [e |-> e, v |-> v]
Count(m, e) == Cardinality({i \in 1..Len(trace[m]) : trace[m][i].e = e})
nEnc(m) == Count(m, "encode") + Count(m, "encode_failed")
nSign(m) == Count(m, "sign")
nPost(m) == Count(m, "post")

\* datetime.utcnow() at the k-th attempt of a call
utcnow(k) == (k - 1) * tick

\* deepcopy(actions): a list that shares nothing with the caller's list
deepcopy(acts) == [obj |-> acts, shared |-> FALSE]

\* mutant of package: the packaged actions come out in reverse order
RECURSIVE package_reversed(_, _, _)
package_reversed(loaded, tx_actions, i) ==
    IF i > Len(tx_actions)
    THEN Return([j \in 1..Len(tx_actions) |-> tx_actions[Len(tx_actions) + 1 - j]])
    ELSE LET r == _pack_abi_data(loaded, tx_actions[i])
         IN  IF ~r.ok THEN [r EXCEPT !.out = tx_actions]
             ELSE package_reversed(loaded, [tx_actions EXCEPT ![i].data = r.out], i + 1)

\* for i, action in enumerate(tx['actions']):
\*     tx['actions'][i]['data'] = self._pack_abi_data(action)
\* out is the list as the loop left it, also when an action failed to pack
RECURSIVE package(_, _, _)
package(loaded, tx_actions, i) ==
    IF i > Len(tx_actions) THEN Return(tx_actions)
    ELSE LET r == _pack_abi_data(loaded, tx_actions[i])
         IN  IF ~r.ok THEN [r EXCEPT !.out = tx_actions]
             ELSE package(loaded, [tx_actions EXCEPT ![i].data = r.out], i + 1)

\* mutant of caller_list: the packaging wrote into the caller's own dicts,
\* whose data is then the encoded string and no longer a list
caller_list_written(acts, copy, written) ==
    [j \in 1..Len(acts) |-> [acts[j] EXCEPT !.data = [list |-> FALSE, items |-> <<>>]]]

\* the caller's list after the packaging wrote into tx['actions']
caller_list(acts, copy, written) == IF copy.shared THEN written ELSE acts

\* lines 1048-1053 and 164-166: ref_block_num and ref_block_prefix are 0
\* unless the chain info was fetched
queries_chain(m, p) == m # "sync" \/ p
tapos_init(m, p) ==
    IF queries_chain(m, p)
    THEN get_tapos_info(ChainInfo.last_irreversible_block_id)
    ELSE [ref_block_num |-> 0, ref_block_prefix |-> 0]

\* mutant of attempt_tapos: a later attempt derives the pair from the block
\* that is the last irreversible one by then
attempt_tapos_requeried(stored, k) ==
    IF k = 1 THEN stored ELSE get_tapos_info("block-8")

\* 'ref_block_num': ref_block_num, 'ref_block_prefix': ref_block_prefix:
\* the k-th attempt reads the locals that were set before the loop
attempt_tapos(stored, k) == stored

\* lines 1060-1081 and 173-194: the transaction of one attempt
build_tx(loaded, acts, cpu, now, tap) ==
    LET copy == deepcopy(acts)
        r == package(loaded, copy.obj, 1)
    IN  IF ~r.ok THEN [r EXCEPT !.out = [caller |-> caller_list(acts, copy, r.out)]]
        ELSE Return([caller |-> caller_list(acts, copy, r.out),
                     delay_sec |-> 0,
                     max_cpu_usage_ms |-> cpu,
                     actions |-> r.out,
                     expiration |-> get_expiration(now, EXPIRATION_SECONDS),
                     ref_block_num |-> tap.ref_block_num,
                     ref_block_prefix |-> tap.ref_block_prefix,
                     max_net_usage_words |-> 0,
                     context_free_actions |-> <<>>,
                     transaction_extensions |-> <<>>,
                     context_free_data |-> <<>>])

\* the transaction object: the dict tx of the attempt
tx_of(built) == [f \in DOMAIN built \ {"caller"} |-> built[f]]

\* an exception raised inside the coroutine: StopIteration leaves a coroutine
\* as RuntimeError, every other exception unchanged
propagate(m, kind) ==
    IF m = "async" /\ kind = "StopIteration" THEN "RuntimeError" ELSE kind

\* mutant of returns_unsigned: the test of push is missing
returns_unsigned_never(m, p) == FALSE

\* if not push: return tx (line 1083; the cooperative loop has no such test)
returns_unsigned(m, p) == m = "sync" /\ ~p

\* mutant of after_encode: a dispatcher failure is retried like a rejection
after_encode_retry(m, r) == IF r.ok THEN "sign" ELSE "encode"

\* where the call goes after the packaging of an attempt
after_encode(m, r) == IF r.ok THEN "sign" ELSE "raised"

\* sign_tx raised CannonicalSignatureError: _create_and_push_tx has no
\* handler, _a_create_and_push_tx has "except ...: continue"
after_noncanonical(m) == IF m = "sync" THEN "raised" ELSE "encode"

\* mutant of after_post: an accepted response does not break out of the loop
after_post_nobreak(r, left) == IF left > 0 THEN "encode" ELSE "returned"

\* retries -= 1; if 'error' in res: continue (while retries > 0) else: break
after_post(r, left) ==
    IF "error" \in DOMAIN r
    THEN IF left > 0 THEN "encode" ELSE "returned"
    ELSE "returned"

\* mutant of post_res: the first response is kept
post_res_first(old, r) == IF old = [none |-> TRUE] THEN r ELSE old

\* res = self._post(...).json()
post_res(old, r) == r

\* the node double's k-th response
node_response(o, k) ==
    IF o = "error" THEN [code |-> 500, error |-> k]
    ELSE [transaction_id |-> k]

SignerOutcomes == {"ok", "nc"}
NodeOutcomes == {"ok", "error", "raise"}

Terminal(m) == pc[m] \in {"returned", "raised"}

\* if push: chain_info = get_info(); ...   res = None; retries = ...
GetInfo(m) ==
    /\ pc[m] = "idle"
    /\ pc' = [pc EXCEPT ![m] = "encode"]
    /\ retries' = [retries EXCEPT ![m] = retries_init(m)]
    /\ res' = [res EXCEPT ![m] = None]
    /\ tapos' = [tapos EXCEPT ![m] = tapos_init(m, push)]
    /\ trace' = [trace EXCEPT ![m] =
                    IF queries_chain(m, push)
                    THEN Append(@, Event("get_info", ChainInfo))
                    ELSE @]
    /\ UNCHANGED <<inputs, sigScript, nodeScript, exc, tx, packed, ret, extras>>

\* Encoding: lines 1060-1081 / 173-194
Encode(m) ==
    /\ pc[m] = "encode"
    /\ nEnc(m) < MaxAttempts
    /\ LET r == build_tx(loaded_abis, actions, max_cpu_usage_ms,
                         utcnow(nEnc(m) + 1), attempt_tapos(tapos[m], nEnc(m) + 1))
       IN  /\ actions' = r.out.caller
           /\ IF r.ok
              THEN /\ tx' = [tx EXCEPT ![m] = tx_of(r.out)]
                   /\ exc' = exc
                   /\ trace' = [trace EXCEPT ![m] =
                                   Append(@, Event("encode", [tx |-> tx_of(r.out)]))]
                   /\ IF returns_unsigned(m, push)
                      THEN /\ pc' = [pc EXCEPT ![m] = "returned"]
                           /\ ret' = [ret EXCEPT ![m] = tx_of(r.out)]
                      ELSE /\ pc' = [pc EXCEPT ![m] = after_encode(m, r)]
                           /\ ret' = ret
              ELSE /\ tx' = tx
                   /\ ret' = ret
                   /\ pc' = [pc EXCEPT ![m] = after_encode(m, r)]
                   /\ exc' = [exc EXCEPT ![m] = propagate(m, r.err)]
                   /\ trace' = [trace EXCEPT ![m] =
                                   Append(@, Event("encode_failed", [err |-> r.err]))]
    /\ UNCHANGED <<loaded_abis, max_cpu_usage_ms, tick, push>>
    /\ UNCHANGED <<sigScript, nodeScript, retries, res, packed, tapos, extras>>

\* Signing: lines 1087 / 197-201
Sign(m) ==
    /\ pc[m] = "sign"
    /\ LET k == nSign(m) + 1
       IN  \E o \in SignerOutcomes :
             /\ IF k <= Len(sigScript)
                THEN o = sigScript[k] /\ sigScript' = sigScript
                ELSE sigScript' = Append(sigScript, o)
             /\ trace' = [trace EXCEPT ![m] =
                             Append(@, Event("sign", [outcome |-> o, tx |-> tx[m],
                                                      chain_id |-> ChainInfo.chain_id]))]
             /\ IF o = "ok"
                THEN pc' = [pc EXCEPT ![m] = "post"] /\ exc' = exc
                ELSE /\ pc' = [pc EXCEPT ![m] = after_noncanonical(m)]
                     /\ exc' = [exc EXCEPT ![m] =
                                   IF after_noncanonical(m) = "raised"
                                   THEN "CannonicalSignatureError" ELSE @]
    /\ UNCHANGED <<inputs, nodeScript, retries, res, tx, packed, tapos, ret, extras>>

\* Packing and Submitting: lines 1090-1108 / 204-222
Post(m) ==
    /\ pc[m] = "post"
    /\ LET k == nPost(m) + 1
       IN  \E o \in NodeOutcomes :
             /\ IF k <= Len(nodeScript)
                THEN o = nodeScript[k] /\ nodeScript' = nodeScript
                ELSE nodeScript' = Append(nodeScript, o)
             /\ trace' = [trace EXCEPT ![m] =
                             Append(@, Event("post", [outcome |-> o, tx |-> tx[m],
                                                      resp |-> node_response(o, k),
                                                      left |-> retries[m] - 1]))]
             /\ IF o = "raise"
                THEN /\ pc' = [pc EXCEPT ![m] = "raised"]
                     /\ exc' = [exc EXCEPT ![m] = "ConnectionError"]
                     /\ UNCHANGED <<res, retries, ret>>
                ELSE /\ res' = [res EXCEPT ![m] = post_res(@, node_response(o, k))]
                     /\ retries' = [retries EXCEPT ![m] = @ - 1]
                     /\ pc' = [pc EXCEPT ![m] =
                                  after_post(node_response(o, k), retries[m] - 1)]
                     /\ ret' = [ret EXCEPT ![m] =
                                   IF pc'[m] = "returned" THEN res'[m] ELSE @]
                     /\ exc' = exc
    /\ UNCHANGED <<inputs, sigScript, tx, packed, tapos, extras>>

(***************************************************************************)
(* Inputs of the submission loop.                                          *)
(***************************************************************************)
V_alice == [k |-> "str", s |-> "alice"]
V_bob == [k |-> "str", s |-> "bob"]
V_five == [k |-> "obj", s |-> "5"]
Values == {V_alice, V_five}

Field(n, t) == [name |-> n, type |-> t]
Auth(actor) == <<[actor |-> actor, permission |-> "active"]>>
List(items) == [list |-> TRUE, items |-> items]
NotAList == [list |-> FALSE, items |-> <<>>]

TokenAbi ==
    [structs |-> <<
        [name |-> "transfer", fields |-> <<Field("from", <<"name">>),
                                           Field("quantity", <<"uint8">>)>>],
        [name |-> "open", fields |-> <<Field("owner", <<"name">>)>>],
        [name |-> "open", fields |-> <<Field("owner", <<"name">>)>>],
        [name |-> "close", fields |-> <<Field("owner", <<"bogus">>)>>] >>]

LoopRegistries == {[a \in {"token"} |-> TokenAbi]}

Action(account, name, data, actor) ==
    [account |-> account, name |-> name, data |-> data, authorization |-> Auth(actor)]

LoopActions ==
    { Action("token", "transfer", List(<<V_alice, V_five>>), "alice"),
      Action("token", "transfer", List(<<V_bob, V_five>>), "bob"),
      Action("token", "issue", List(<<V_alice>>), "alice"),     \* no such struct
      Action("token", "open", List(<<V_alice>>), "alice"),      \* two such structs
      Action("token", "close", List(<<V_alice>>), "alice"),     \* unregistered type
      Action("token", "transfer", NotAList, "alice"),           \* data is no list
      Action("ghost", "transfer", List(<<V_alice, V_five>>), "alice") } \* no ABI

NotPacked == [ok |-> FALSE, err |-> "not called", out |-> <<>>]

IdleCalls ==
    /\ sigScript = <<>>
    /\ nodeScript = <<>>
    /\ pc = [m \in Modes |-> "idle"]
    /\ retries = [m \in Modes |-> 0]
    /\ res = [m \in Modes |-> None]
    /\ exc = [m \in Modes |-> ""]
    /\ tx = [m \in Modes |-> NoTx]
    /\ trace = [m \in Modes |-> <<>>]
    /\ tapos = [m \in Modes |-> [ref_block_num |-> 0, ref_block_prefix |-> 0]]
    /\ ret = [m \in Modes |-> None]

NoOut == [kind |-> "none"]

\* no public wrapper is involved
NoApi ==
    /\ api = "none"
    /\ api_out = NoOut

NoGot == [op |-> "none"]

\* the registry has been neither written nor read
NoRegistryCalls ==
    /\ loads = <<>>
    /\ got = NoGot

NoKeyCall == [op |-> "none"]

\* self.keys = {}; self.private_keys = {}; self._key_to_acc = {}
NoKeys ==
    /\ keys = [a \in {} |-> ""]
    /\ private_keys = [a \in {} |-> ""]
    /\ _key_to_acc = [k \in {} |-> <<>>]
    /\ key_out = NoKeyCall

Tasks == {"t1", "t2"}

\* a coroutine that has not been started
IdleTask == [pc |-> "idle", retries |-> 0, res |-> None, tx |-> NoTx,
             sent |-> None, ret |-> None, exc |-> ""]

NoTasks == tasks = [t \in Tasks |-> IdleTask]

\* a method that has not been called
NotCalled == [pc |-> "idle"]

NoQueries ==
    /\ tbl = NotCalled
    /\ feat = NotCalled
    /\ wb = NotCalled

NoDeploy == dep = NotCalled

ExtrasIdle ==
    /\ NoApi
    /\ NoRegistryCalls
    /\ NoKeys
    /\ NoTasks
    /\ NoQueries
    /\ NoDeploy

Init ==
    /\ loaded_abis \in LoopRegistries
    /\ actions \in (SeqsUpTo(LoopActions, MaxActions) \ {<<>>})
    /\ max_cpu_usage_ms \in {100, 255}
    /\ tick \in {0, 1}
    /\ push = TRUE
    /\ IdleCalls
    /\ ExtrasIdle
    /\ packed = NotPacked

Next ==
    \E m \in Modes : GetInfo(m) \/ Encode(m) \/ Sign(m) \/ Post(m)

Spec == Init /\ [][Next]_vars

\* the same calls, with and without push
PushInit ==
    /\ loaded_abis \in LoopRegistries
    /\ actions \in (SeqsUpTo(LoopActions, MaxActions) \ {<<>>})
    /\ max_cpu_usage_ms \in {100, 255}
    /\ tick \in {0, 1}
    /\ push \in BOOLEAN
    /\ IdleCalls
    /\ ExtrasIdle
    /\ packed = NotPacked

PushSpec == PushInit /\ [][Next]_vars

(***************************************************************************)
(* push_action and push_actions: the public wrappers of the blocking loop. *)
(***************************************************************************)
\* mutant of exit_code: the content of the 'error' field decides
exit_code_content(r) == IF "error" \in DOMAIN r /\ r.error = 1 THEN 1 ELSE 0

\* if 'error' in res: return 1, res   else: return 0, res
exit_code(r) == IF "error" \in DOMAIN r THEN 1 ELSE 0

\* what push_action (lines 1159-1166) and push_actions (lines 1187-1191)
\* return for the value r that _create_and_push_tx returned
api_result(a, p, r) ==
    IF a = "push_action" /\ ~p
    THEN [kind |-> "value", v |-> r]                       \* return res
    ELSE [kind |-> "pair", ec |-> exit_code(r), res |-> r]

ApiInit ==
    /\ loaded_abis \in LoopRegistries
    /\ actions \in (SeqsUpTo(LoopActions, MaxActions) \ {<<>>})
    /\ max_cpu_usage_ms \in {100, 255}
    /\ tick \in {0, 1}
    /\ push \in BOOLEAN
    /\ IdleCalls
    /\ api \in {"push_action", "push_actions"}
    /\ api = "push_action" => Len(actions) = 1
    /\ api_out = NoOut
    /\ NoRegistryCalls
    /\ NoKeys
    /\ NoTasks
    /\ NoQueries
    /\ NoDeploy
    /\ packed = NotPacked

\* the wrapper returns once _create_and_push_tx returned; an exception of
\* the loop passes through the wrapper
ApiReturn ==
    /\ api # "none"
    /\ api_out = NoOut
    /\ Terminal("sync")
    /\ api_out' = IF pc["sync"] = "raised"
                  THEN [kind |-> "raised", exc |-> exc["sync"]]
                  ELSE api_result(api, push, ret["sync"])
    /\ UNCHANGED <<inputs, sigScript, nodeScript, pc, retries, res, exc, tx, trace>>
    /\ UNCHANGED <<packed, tapos, ret, api, regVars, keyVars, taskVars, queryVars, deployVars>>

ApiNext ==
    \/ GetInfo("sync")
    \/ Encode("sync")
    \/ Sign("sync")
    \/ Post("sync")
    \/ ApiReturn

ApiSpec == ApiInit /\ [][ApiNext]_vars

(***************************************************************************)
(* Direct calls of _pack_abi_data on bounded inputs.                       *)
(***************************************************************************)
FieldNames == {"from", "abi"}
PackTypes == {<<"name">>, <<"uint8">>, <<"bogus">>, <<"uint8", "?">>}
StructNames == {"transfer", "close"}

FieldLists == SeqsUpTo([name : FieldNames, type : PackTypes], MaxFields)
Targets == [name : StructNames, fields : FieldLists]
Decoys == [name : StructNames, fields : {<<>>}]

StructLists ==
    {<<>>} \cup {<<t>> : t \in Targets}
           \cup {<<d, t>> : d \in Decoys, t \in Targets}
           \cup {<<t, d>> : d \in Decoys, t \in Targets}

PackAbis == {[structs |-> s] : s \in StructLists} \cup {[version |-> "eosio::abi/1.2"]}

PackRegistries == {[a \in {} |-> TokenAbi]} \cup {[a \in {"eosio"} |-> abi] : abi \in PackAbis}

PackDatas == {List(d) : d \in SeqsUpTo(Values, MaxData)} \cup {NotAList}

PackInit ==
    /\ loaded_abis \in PackRegistries
    /\ actions \in {<<Action("eosio", "transfer", d, "alice")>> : d \in PackDatas}
    /\ max_cpu_usage_ms = 100
    /\ tick = 0
    /\ push = TRUE
    /\ IdleCalls
    /\ ExtrasIdle
    /\ packed = NotPacked

DoPack ==
    /\ packed = NotPacked
    /\ packed' = _pack_abi_data(loaded_abis, actions[1])
    /\ UNCHANGED <<inputs, sigScript, nodeScript, pc, retries, res, exc, tx, trace>>
    /\ UNCHANGED <<tapos, ret, extras>>

PackNext == DoPack

PackSpec == PackInit /\ [][PackNext]_vars

(***************************************************************************)
(* Direct calls of _pack_abi_data on a struct of one field, over the       *)
(* declared types with up to MaxSuffix suffixes.                           *)
(***************************************************************************)
Suffixes == {<<"[", "]">>, <<"?">>, <<"$">>}

RECURSIVE SuffixSeqs(_)
SuffixSeqs(n) ==
    IF n = 0 THEN {<<>>}
    ELSE LET shorter == SuffixSeqs(n - 1)
         IN  shorter \cup {t \o x : t \in shorter, x \in Suffixes}

BareTypes == {<<"name">>, <<"uint8">>, <<"bogus">>}
DispatchTypes == {b \o x : b \in BareTypes, x \in SuffixSeqs(MaxSuffix)}

DispatchAbi(name, field_name, typ) ==
    [structs |-> <<[name |-> name, fields |-> <<Field(field_name, typ)>>]>>]

DispatchInit ==
    /\ \E account \in {"eosio", "token"}, name \in {"setabi", "transfer"},
          field_name \in {"abi", "from"}, typ \in DispatchTypes, value \in Values :
            /\ loaded_abis = [a \in {account} |-> DispatchAbi(name, field_name, typ)]
            /\ actions = <<Action(account, name, List(<<value>>), "alice")>>
    /\ max_cpu_usage_ms = 100
    /\ tick = 0
    /\ push = TRUE
    /\ IdleCalls
    /\ ExtrasIdle
    /\ packed = NotPacked

DispatchNext == DoPack

DispatchSpec == DispatchInit /\ [][DispatchNext]_vars

(***************************************************************************)
(* The ABI registry: load_abi, get_loaded_abi and encodes, in any order.   *)
(***************************************************************************)
RegAccounts == {"eosio", "token"}
RegAbis == {DispatchAbi("transfer", "from", <<"name">>),
            DispatchAbi("transfer", "from", <<"uint8">>)}
RegActions == {Action(a, "transfer", List(<<V_alice>>), "alice") : a \in RegAccounts}

\* self._loaded_abis = {}
RegistryInit ==
    /\ loaded_abis = [a \in {} |-> TokenAbi]
    /\ actions = <<>>
    /\ max_cpu_usage_ms = 100
    /\ tick = 0
    /\ push = TRUE
    /\ IdleCalls
    /\ ExtrasIdle
    /\ packed = NotPacked

LoadAbi(account, abi) ==
    /\ Len(loads) < MaxLoads
    /\ loaded_abis' = load_abi(loaded_abis, account, abi)
    /\ loads' = Append(loads, [account |-> account, abi |-> abi])
    /\ UNCHANGED <<callArgs, loopVars, packed, apiVars, got, keyVars, taskVars, queryVars, deployVars>>

GetLoadedAbi(account) ==
    /\ got' = [op |-> "get", account |-> account, action |-> None, at |-> Len(loads),
               r |-> get_loaded_abi(loaded_abis, account)]
    /\ UNCHANGED <<inputs, loopVars, packed, apiVars, loads, keyVars, taskVars, queryVars, deployVars>>

\* an encode of one action: _pack_abi_data(action)
PackAction(action) ==
    /\ packed' = _pack_abi_data(loaded_abis, action)
    /\ actions' = <<action>>
    /\ got' = [op |-> "pack", account |-> action.account, action |-> action,
               at |-> Len(loads), r |-> packed']
    /\ UNCHANGED <<loaded_abis, max_cpu_usage_ms, tick, push, loopVars, apiVars, loads>>
    /\ UNCHANGED <<keyVars, taskVars, queryVars, deployVars>>

RegistryNext ==
    \/ \E account \in RegAccounts, abi \in RegAbis : LoadAbi(account, abi)
    \/ \E account \in RegAccounts : GetLoadedAbi(account)
    \/ \E action \in RegActions : PackAction(action)

RegistrySpec == RegistryInit /\ [][RegistryNext]_vars

(***************************************************************************)
(* The key store: import_key and assign_key, in any order.                 *)
(***************************************************************************)
KeyAccounts == {"alice", "bob"}
PrivateKeys == {"5Kalpha", "5Kbeta"}

\* get_pub_key(private_key): the public key derived from a private key
get_pub_key(private_key) == [derived_from |-> private_key]

PublicKeys == {get_pub_key(k) : k \in PrivateKeys}

\* d[k] = v
setitem(d, k, v) == [x \in DOMAIN d \cup {k} |-> IF x = k THEN v ELSE d[x]]

KeysInit ==
    /\ loaded_abis = [a \in {} |-> TokenAbi]
    /\ actions = <<>>
    /\ max_cpu_usage_ms = 100
    /\ tick = 0
    /\ push = TRUE
    /\ IdleCalls
    /\ ExtrasIdle
    /\ packed = NotPacked

\* the three dictionaries of the key store, taken together
key_registry ==
    [keys |-> keys, private_keys |-> private_keys, _key_to_acc |-> _key_to_acc]

\* the accounts a public key is listed under
accounts_of(R, public_key) ==
    IF public_key \in DOMAIN R._key_to_acc THEN R._key_to_acc[public_key] ELSE <<>>

\* the key store after import_key(account, private_key)
after_import_key(R, account, private_key) ==
    LET public_key == get_pub_key(private_key)
    IN  [keys |-> setitem(R.keys, account, public_key),
         private_keys |-> setitem(R.private_keys, account, private_key),
         _key_to_acc |-> setitem(R._key_to_acc, public_key,
                                 Append(accounts_of(R, public_key), account))]

\* the key store after a variant of assign_key that would store the public
\* key it was given beside the first owner's private key
after_assign_key_given(R, account, public_key) ==
    LET owner == R._key_to_acc[public_key][1]
    IN  [R EXCEPT !.keys = setitem(R.keys, account, public_key),
                  !.private_keys = setitem(R.private_keys, account,
                                           R.private_keys[owner])]

\* the key store after an assign_key(account, public_key) that found the key
after_assign_key(R, account, public_key) ==
    LET owner == R._key_to_acc[public_key][1]
    IN  [R EXCEPT !.keys = setitem(R.keys, account, R.keys[owner]),
                  !.private_keys = setitem(R.private_keys, account,
                                           R.private_keys[owner])]

\* the key store becomes R
StoreKeys(R) ==
    /\ keys' = R.keys
    /\ private_keys' = R.private_keys
    /\ _key_to_acc' = R._key_to_acc

import_key(account, private_key) ==
    LET public_key == get_pub_key(private_key)
    IN  /\ Len(accounts_of(key_registry, public_key)) < MaxImports
        /\ StoreKeys(after_import_key(key_registry, account, private_key))
        /\ key_out' = [op |-> "import", account |-> account,
                       public_key |-> public_key, ok |-> TRUE]
        /\ UNCHANGED <<inputs, loopVars, packed, apiVars, regVars, taskVars, queryVars, deployVars>>

assign_key(account, public_key) ==
    /\ IF public_key \notin DOMAIN _key_to_acc
       THEN /\ key_out' = [op |-> "assign", account |-> account,
                           public_key |-> public_key, ok |-> FALSE]  \* ValueError
            /\ UNCHANGED <<keys, private_keys, _key_to_acc>>
       ELSE /\ StoreKeys(after_assign_key(key_registry, account, public_key))
            /\ key_out' = [op |-> "assign", account |-> account,
                           public_key |-> public_key, ok |-> TRUE]
    /\ UNCHANGED <<inputs, loopVars, packed, apiVars, regVars, taskVars, queryVars, deployVars>>

KeysNext ==
    \/ \E account \in KeyAccounts, private_key \in PrivateKeys :
          import_key(account, private_key)
    \/ \E account \in KeyAccounts, public_key \in PublicKeys :
          assign_key(account, public_key)

KeysSpec == KeysInit /\ [][KeysNext]_vars

(***************************************************************************)
(* Account creation: create_account and create_account_staked register the *)
(* new account's key first and submit the creating transaction afterwards. *)
(***************************************************************************)
\* private keys gen_key_pair can hand out; a generated key is a new one
GeneratedKeys == {"5Kgamma"}

GivenKeys == PublicKeys

\* how the node, or the path to it, ends the submission of the transaction;
\* "none" stands for a call that raised before it submitted anything
SubmitOutcomes == {"accepted", "rejected", "raised"}

\* create_key_pair(): a private key no account holds yet
create_key_pair(R) ==
    {k \in GeneratedKeys : get_pub_key(k) \notin DOMAIN R._key_to_acc}

\* "if not key: ... import_key(name, priv) else: ... assign_key(name, pub)",
\* the first statement of both create_account and create_account_staked
register_key(R, name, pubkey, priv) ==
    IF pubkey = None THEN Return(after_import_key(R, name, priv))
    ELSE IF pubkey \notin DOMAIN R._key_to_acc THEN Raise("ValueError")
    ELSE Return(after_assign_key(R, name, pubkey))

\* the exception create_account ends with, "" when it returns
create_account_exc(registered, owner, outcome) ==
    IF ~registered.ok THEN registered.err
    ELSE IF owner \notin DOMAIN registered.out.private_keys THEN "KeyError"
    ELSE IF outcome = "raised" THEN "Exception"
    ELSE IF outcome = "rejected" THEN "AssertionError"   \* assert ec == 0
    ELSE ""

\* the exception create_account_staked ends with: it returns the exit code
\* of a rejected submission instead of asserting on it
create_account_staked_exc(registered, owner, outcome) ==
    IF ~registered.ok THEN registered.err
    ELSE IF owner \notin DOMAIN registered.out.private_keys THEN "KeyError"
    ELSE IF outcome = "raised" THEN "Exception"
    ELSE ""

CreateAccount(op, owner, name, pubkey, priv, outcome, error) ==
    LET registered == register_key(key_registry, name, pubkey, priv)
        public_key == IF pubkey = None THEN get_pub_key(priv) ELSE pubkey
        submitted == registered.ok /\ owner \in DOMAIN registered.out.private_keys
    IN  /\ outcome \in (IF submitted THEN SubmitOutcomes ELSE {"none"})
        /\ StoreKeys(IF registered.ok THEN registered.out ELSE key_registry)
        /\ key_out' = [op |-> op, account |-> name, public_key |-> public_key,
                       outcome |-> outcome,
                       ok |-> error = "", exc |-> error]
        /\ UNCHANGED <<inputs, loopVars, packed, apiVars, regVars, taskVars, queryVars, deployVars>>

create_account(owner, name, pubkey, priv, outcome) ==
    CreateAccount("create_account", owner, name, pubkey, priv, outcome,
                  create_account_exc(register_key(key_registry, name, pubkey, priv),
                                     owner, outcome))

create_account_staked(owner, name, pubkey, priv, outcome) ==
    CreateAccount("create_account_staked", owner, name, pubkey, priv, outcome,
                  create_account_staked_exc(register_key(key_registry, name, pubkey, priv),
                                            owner, outcome))

\* the calls with a generated key, then the calls with a given one
CreateAccountCalls(owner, name, outcome) ==
    \/ \E priv \in create_key_pair(key_registry) :
          \/ create_account(owner, name, None, priv, outcome)
          \/ create_account_staked(owner, name, None, priv, outcome)
    \/ \E pubkey \in GivenKeys :
          \/ create_account(owner, name, pubkey, "", outcome)
          \/ create_account_staked(owner, name, pubkey, "", outcome)

AccountsNext ==
    \/ \E account \in KeyAccounts, private_key \in PrivateKeys :
          import_key(account, private_key)
    \/ \E account \in KeyAccounts, public_key \in GivenKeys :
          assign_key(account, public_key)
    \/ \E owner, name \in KeyAccounts, outcome \in SubmitOutcomes \cup {"none"} :
          CreateAccountCalls(owner, name, outcome)

AccountsSpec == KeysInit /\ [][AccountsNext]_vars

(***************************************************************************)
(* Concurrent calls of _a_create_and_push_tx on one CLEOS instance.  A     *)
(* coroutine gives up control only at "await self.a_get_info()" and at     *)
(* "await self._apost(...)"; what it does between two awaits is one step.  *)
(* load_abi and import_key calls run between the steps of the coroutines.  *)
(***************************************************************************)
\* arguments actions and key of the call of task t
TaskActions(t) ==
    IF t = "t1"
    THEN <<Action("token", "transfer", List(<<V_alice>>), "alice")>>
    ELSE <<Action("token", "transfer", List(<<V_bob>>), "bob")>>
TaskKey(t) == IF t = "t1" THEN "5Kalpha" ELSE "5Kbeta"

\* mutant of attempt_tx: a retry posts the transaction of the first attempt
attempt_tx_reuse(prev, fresh) == IF prev = NoTx THEN fresh ELSE prev

\* tx = {...}: every iteration of the loop builds its transaction anew
attempt_tx(prev, fresh) == fresh

\* the node's response to a push_transaction request
node_reply(o, request) ==
    IF o = "error"
    THEN [code |-> 500, error |-> "rejected", request |-> request.tx]
    ELSE [transaction_id |-> request.tx]

\* lines 172-211: one iteration up to "await self._apost(...)", for the
\* locals T of task t; a non-canonical signature repeats the iteration
\* without giving up control
attempt(t, T) ==
    LET r == build_tx(loaded_abis, TaskActions(t), max_cpu_usage_ms, utcnow(1),
                      get_tapos_info(ChainInfo.last_irreversible_block_id))
    IN  IF ~r.ok
        THEN [T EXCEPT !.pc = "raised", !.exc = propagate("async", r.err)]
        ELSE LET new == attempt_tx(T.tx, tx_of(r.out))
             IN  [T EXCEPT !.pc = "post", !.tx = new,
                           !.sent = [tx |-> new, key |-> TaskKey(t), at |-> Len(loads)]]

ConcInit ==
    /\ loaded_abis = [a \in {} |-> TokenAbi]
    /\ actions = <<>>
    /\ max_cpu_usage_ms = 100
    /\ tick = 0
    /\ push = TRUE
    /\ IdleCalls
    /\ ExtrasIdle
    /\ packed = NotPacked

\* the call starts and awaits the chain info
TaskCall(t) ==
    /\ tasks[t].pc = "idle"
    /\ tasks' = [tasks EXCEPT ![t].pc = "get_info"]
    /\ UNCHANGED <<inputs, loopVars, packed, apiVars, regVars, keyVars>>
    /\ UNCHANGED <<queryVars, deployVars>>

\* the chain info arrives: res = None; retries = 3; first iteration
TaskGotInfo(t) ==
    /\ tasks[t].pc = "get_info"
    /\ tasks' = [tasks EXCEPT ![t] =
                    attempt(t, [@ EXCEPT !.retries = ASYNC_RETRIES, !.res = None])]
    /\ UNCHANGED <<inputs, loopVars, packed, apiVars, regVars, keyVars>>
    /\ UNCHANGED <<queryVars, deployVars>>

\* the response to the task's POST arrives: retries -= 1, then either the
\* next iteration up to its POST or the return
TaskGotResponse(t) ==
    /\ tasks[t].pc = "post"
    /\ \E o \in {"ok", "error"} :
          LET resp == node_reply(o, tasks[t].sent)
              left == tasks[t].retries - 1
              T == [tasks[t] EXCEPT !.res = resp, !.retries = left]
          IN  tasks' = [tasks EXCEPT ![t] =
                           IF after_post(resp, left) = "encode"
                           THEN attempt(t, T)
                           ELSE [T EXCEPT !.pc = "returned", !.ret = resp]]
    /\ UNCHANGED <<inputs, loopVars, packed, apiVars, regVars, keyVars>>
    /\ UNCHANGED <<queryVars, deployVars>>

ConcNext ==
    \/ \E t \in Tasks : TaskCall(t)
    \/ \E t \in Tasks : TaskGotInfo(t)
    \/ \E t \in Tasks : TaskGotResponse(t)
    \/ \E abi \in RegAbis : LoadAbi("token", abi)
    \/ import_key("alice", "5Kbeta")

ConcSpec == ConcInit /\ [][ConcNext]_vars

(***************************************************************************)
(* A CLEOS instance on which no submission runs and nothing is loaded.     *)
(***************************************************************************)
NoSubmission ==
    /\ loaded_abis = [a \in {} |-> TokenAbi]
    /\ actions = <<>>
    /\ max_cpu_usage_ms = 100
    /\ tick = 0
    /\ push = TRUE
    /\ IdleCalls
    /\ packed = NotPacked

(***************************************************************************)
(* get_table and aget_table against a node that serves a table of n rows,  *)
(* keyed 1..n, in pages of at most limit rows starting at the request's    *)
(* lower_bound.                                                            *)
(***************************************************************************)
Min(S) == CHOOSE x \in S : \A y \in S : x <= y

\* the node's answer to /v1/chain/get_table_rows
get_table_rows(n, limit, params) ==
    LET start == params.lower_bound
        last == Min({start + limit - 1, n})
    IN  [rows |-> [i \in 1..Max({0, last - start + 1}) |-> start + i - 1],
         more |-> last < n,
         next_key |-> last + 1]

\* the request parameter that carries next_key into the next request
next_params(fn, params, next_key) ==
    IF fn = "get_table"
    THEN [params EXCEPT !.index_position = next_key]   \* line 1344
    ELSE [params EXCEPT !.lower_bound = next_key]      \* line 1374

TableInit ==
    /\ NoSubmission
    /\ NoApi /\ NoRegistryCalls /\ NoKeys /\ NoTasks /\ NoDeploy
    /\ feat = NotCalled
    /\ wb = NotCalled
    /\ \E fn \in {"get_table", "aget_table"}, n \in 0..MaxRows, limit \in 1..2,
          lower_bound \in 1..2 :
            tbl = [pc |-> "loop", fn |-> fn, n |-> n, limit |-> limit,
                   first |-> lower_bound,
                   params |-> [lower_bound |-> lower_bound, index_position |-> 1],
                   asked |-> <<>>, rows |-> <<>>, exc |-> ""]

\* one iteration of "while not done"
TableRequest(fn) ==
    /\ tbl.pc = "loop"
    /\ tbl.fn = fn
    /\ Len(tbl.asked) < MaxRequests
    /\ \E o \in {"ok", "error"} :
          IF o = "error"
          THEN tbl' = [tbl EXCEPT !.pc = "raised",
                          !.asked = Append(@, [params |-> tbl.params, failed |-> TRUE]),
                          !.exc = IF fn = "get_table" THEN "BaseException"
                                  ELSE "AssertionError"]
          ELSE LET resp == get_table_rows(tbl.n, tbl.limit, tbl.params)
                   done == ~resp.more
               IN  tbl' = [tbl EXCEPT
                       !.asked = Append(@, [params |-> tbl.params, failed |-> FALSE,
                                            next_key |-> resp.next_key]),
                       !.rows = @ \o resp.rows,
                       !.params = IF done THEN @ ELSE next_params(fn, @, resp.next_key),
                       !.pc = IF done THEN "returned" ELSE "loop"]
    /\ UNCHANGED <<inputs, loopVars, packed, apiVars, regVars, keyVars, taskVars>>
    /\ UNCHANGED <<feat, wb, deployVars>>

TableNext ==
    \/ TableRequest("get_table")
    \/ TableRequest("aget_table")

TableSpec == TableInit /\ [][TableNext]_vars

(***************************************************************************)
(* get_node_activations against a node with n activated protocol features, *)
(* whose activation ordinals are 0..n-1.  A list of features is kept as    *)
(* the sequence of its runs: the pair <<a, b>> stands for the features of  *)
(* ordinals a, a+1, ..., b in this order.                                  *)
(***************************************************************************)
ACTIVATIONS_STEP == 250

\* the node's answer to /v1/chain/get_activated_protocol_features: the
\* features with lower <= ordinal <= upper, at most limit of them, and a
\* field 'more' when the limit cut the range short
get_activated_protocol_features(n, limit, lower, upper) ==
    LET last == Min({upper, n - 1})
        count == Max({0, last - lower + 1})
        served == Min({count, limit})
    IN  [activated_protocol_features |->
             IF served = 0 THEN <<>> ELSE << <<lower, lower + served - 1>> >>,
         more |-> count > limit]

\* sorted(features, key=activation_ordinal), for runs that do not overlap
RECURSIVE sorted(_)
sorted(runs) ==
    IF runs = <<>> THEN <<>>
    ELSE LET i == CHOOSE i \in 1..Len(runs) : \A j \in 1..Len(runs) : runs[i][1] <= runs[j][1]
         IN  <<runs[i]>> \o sorted([j \in 1..Len(runs) - 1 |->
                                       IF j < i THEN runs[j] ELSE runs[j + 1]])

\* features.pop(0)
pop_first(runs) ==
    IF runs = <<>> THEN Raise("IndexError")
    ELSE IF runs[1][1] = runs[1][2] THEN Return(Tail(runs))
    ELSE Return(<< <<runs[1][1] + 1, runs[1][2]>> >> \o Tail(runs))

ActivationsInit ==
    /\ NoSubmission
    /\ NoApi /\ NoRegistryCalls /\ NoKeys /\ NoTasks /\ NoDeploy
    /\ tbl = NotCalled
    /\ wb = NotCalled
    /\ \E n \in 0..MaxFeatures :
          feat = [pc |-> "loop", n |-> n, lower_bound |-> 0, features |-> <<>>,
                  requests |-> 0, out |-> <<>>, exc |-> ""]

\* one iteration of "while more"; after the last one the list is sorted,
\* its first element removed and the rest returned
ActivationsRequest ==
    /\ feat.pc = "loop"
    /\ LET resp == get_activated_protocol_features(
                       feat.n, ACTIVATIONS_STEP, feat.lower_bound,
                       feat.lower_bound + ACTIVATIONS_STEP)
           features == feat.features \o resp.activated_protocol_features
           F == [feat EXCEPT !.features = features,
                             !.lower_bound = @ + ACTIVATIONS_STEP,
                             !.requests = @ + 1]
       IN  IF resp.more
           THEN feat' = F
           ELSE LET r == pop_first(sorted(features))
                IN  feat' = IF r.ok
                            THEN [F EXCEPT !.pc = "returned", !.out = r.out]
                            ELSE [F EXCEPT !.pc = "raised", !.exc = r.err]
    /\ UNCHANGED <<inputs, loopVars, packed, apiVars, regVars, keyVars, taskVars>>
    /\ UNCHANGED <<tbl, wb, deployVars>>

ActivationsNext == ActivationsRequest

ActivationsSpec == ActivationsInit /\ [][ActivationsNext]_vars

(***************************************************************************)
(* wait_blocks against a node whose head block number advances.            *)
(***************************************************************************)
\* mutant of wait_target: the block read at the start counts as waited for
wait_target_short(head_block_num, n) == head_block_num + n - 1

\* target_block = int(self.get_info()['head_block_num']) + n
wait_target(head_block_num, n) == head_block_num + n

WaitInit ==
    /\ NoSubmission
    /\ NoApi /\ NoRegistryCalls /\ NoKeys /\ NoTasks /\ NoDeploy
    /\ tbl = NotCalled
    /\ feat = NotCalled
    /\ \E n \in 0..MaxWait, head \in 0..1 :
          wb = [pc |-> "start", n |-> n, head |-> head, start |-> 0,
                target_block |-> 0, current_block |-> 0]

\* the node produces a block while the call waits
HeadAdvance ==
    /\ wb.pc \in {"loop", "sleep"}
    /\ wb.head < MaxHead
    /\ wb' = [wb EXCEPT !.head = @ + 1]
    /\ UNCHANGED <<inputs, loopVars, packed, apiVars, regVars, keyVars, taskVars>>
    /\ UNCHANGED <<tbl, feat, deployVars>>

WaitStart ==
    /\ wb.pc = "start"
    /\ wb' = [wb EXCEPT !.pc = "loop", !.start = wb.head,
                        !.target_block = wait_target(wb.head, wb.n)]
    /\ UNCHANGED <<inputs, loopVars, packed, apiVars, regVars, keyVars, taskVars>>
    /\ UNCHANGED <<tbl, feat, deployVars>>

\* current_block = ...; if current_block >= target_block: break; else sleep
WaitPoll ==
    /\ wb.pc = "loop"
    /\ wb' = [wb EXCEPT !.current_block = wb.head,
                        !.pc = IF wb.head >= wb.target_block THEN "returned"
                               ELSE "sleep"]
    /\ UNCHANGED <<inputs, loopVars, packed, apiVars, regVars, keyVars, taskVars>>
    /\ UNCHANGED <<tbl, feat, deployVars>>

\* time.sleep(wait_time) is over
WaitWake ==
    /\ wb.pc = "sleep"
    /\ wb' = [wb EXCEPT !.pc = "loop"]
    /\ UNCHANGED <<inputs, loopVars, packed, apiVars, regVars, keyVars, taskVars>>
    /\ UNCHANGED <<tbl, feat, deployVars>>

WaitNext ==
    \/ HeadAdvance
    \/ WaitStart
    \/ WaitPoll
    \/ WaitWake

\* the calling thread runs, and the node keeps producing blocks
WaitSpec ==
    /\ WaitInit
    /\ [][WaitNext]_vars
    /\ WF_vars(WaitStart)
    /\ WF_vars(WaitPoll)
    /\ WF_vars(WaitWake)
    /\ WF_vars(HeadAdvance)

(***************************************************************************)
(* deploy_contract: account creation, setpriv, the eosio.code permission,  *)
(* the hash comparison with the remote node, load_abi and the submission   *)
(* of setcode and setabi, in the order of the code.  Every submission is   *)
(* written to dep.log with the names of its actions and how it ended.      *)
(***************************************************************************)
DeployAccount == "token"
Wasms == {"wasm-a", "wasm-b"}

\* sha256(wasm).hexdigest()
sha256(wasm) == [sha256 |-> wasm]

\* the hash comparison let every deployment through
hash_unverified(verify_hash, local_shasum, remote_shasum) == TRUE

\* "if verify_hash: ... if local_shasum != remote_shasum: raise"
hash_verified(verify_hash, local_shasum, remote_shasum) ==
    ~verify_hash \/ local_shasum = remote_shasum

\* the dictionary a submission of the actions called names comes back with
submit_response(names, outcome) ==
    IF outcome = "accepted" THEN [transaction_id |-> names]
    ELSE [error |-> [what |-> "rejected"], names |-> names]

\* one submission in the log
Pushed(names, outcome) == [e |-> "push", names |-> names, outcome |-> outcome]

\* the key stores a CLEOS instance can hold when deploy_contract is called
DeployKeyStores ==
    LET none == [keys |-> [a \in {} |-> ""], private_keys |-> [a \in {} |-> ""],
                 _key_to_acc |-> [k \in {} |-> <<>>]]
        eosio == after_import_key(none, "eosio", "5Kalpha")
    IN  {none, eosio, after_import_key(none, DeployAccount, "5Kbeta"),
         after_import_key(eosio, DeployAccount, "5Kbeta")}

DeployInit ==
    /\ \E abi \in RegAbis :
          loaded_abis \in {[a \in {} |-> TokenAbi],
                           [a \in {DeployAccount} |-> abi]}
    /\ actions = <<>>
    /\ max_cpu_usage_ms = 100
    /\ tick = 0
    /\ push = TRUE
    /\ IdleCalls
    /\ packed = NotPacked
    /\ NoApi /\ NoRegistryCalls /\ NoTasks /\ NoQueries
    /\ \E R \in DeployKeyStores :
          /\ keys = R.keys
          /\ private_keys = R.private_keys
          /\ _key_to_acc = R._key_to_acc
    /\ key_out = NoKeyCall
    /\ \E wasm \in Wasms, abi \in RegAbis,
          privileged, create, staked, verify_hash \in BOOLEAN :
          dep = [pc |-> "create", account_name |-> DeployAccount,
                 wasm |-> wasm, abi |-> abi, privileged |-> privileged,
                 create_account |-> create, staked |-> staked,
                 verify_hash |-> verify_hash,
                 before |-> get_loaded_abi(loaded_abis, DeployAccount),
                 log |-> <<>>, exc |-> "", ret |-> None]

\* what a step of deploy_contract leaves alone besides the registries
deployRest ==
    <<actions, max_cpu_usage_ms, tick, push, loopVars, packed, apiVars,
      regVars, key_out, taskVars, queryVars>>

\* the call goes on to the step next, or ends with the exception error
deploy_goes_on(d, error, next) ==
    [d EXCEPT !.pc = IF error = "" THEN next ELSE "raised", !.exc = error]

\* the outcomes open to a submission that is made, "none" to one that is not
outcomes_when(submitted) == IF submitted THEN SubmitOutcomes ELSE {"none"}

\* "if create_account: ..." followed by wait_blocks(1)
DeployCreateAccount(outcome) ==
    /\ dep.pc = "create"
    /\ IF ~dep.create_account
       THEN /\ outcome = "none"
            /\ dep' = [dep EXCEPT !.pc = "setpriv"]
            /\ UNCHANGED <<keys, private_keys, _key_to_acc>>
       ELSE \E priv \in create_key_pair(key_registry) :
            LET registered == register_key(key_registry, dep.account_name, None, priv)
                submitted == "eosio" \in DOMAIN registered.out.private_keys
                error == IF dep.staked
                         THEN create_account_staked_exc(registered, "eosio", outcome)
                         ELSE create_account_exc(registered, "eosio", outcome)
                names == IF dep.staked
                         THEN <<"newaccount", "buyrambytes", "delegatebw">>
                         ELSE <<"newaccount">>
            IN  /\ outcome \in outcomes_when(submitted)
                /\ StoreKeys(registered.out)
                /\ dep' = [deploy_goes_on(dep, error, "setpriv") EXCEPT
                             !.log = IF submitted
                                     THEN Append(@, Pushed(names, outcome)) ELSE @]
    /\ UNCHANGED <<loaded_abis, deployRest>>

\* "if privileged: self.push_action('eosio', 'setpriv', ...)" followed by
\* wait_blocks(1); the pair push_action returns is dropped
DeploySetPriv(outcome) ==
    /\ dep.pc = "setpriv"
    /\ IF ~dep.privileged
       THEN /\ outcome = "none"
            /\ dep' = [dep EXCEPT !.pc = "permission"]
       ELSE LET submitted == "eosio" \in DOMAIN private_keys
                error == IF ~submitted THEN "KeyError"
                         ELSE IF outcome = "raised" THEN "Exception" ELSE ""
            IN  /\ outcome \in outcomes_when(submitted)
                /\ dep' = [deploy_goes_on(dep, error, "permission") EXCEPT
                             !.log = IF submitted
                                     THEN Append(@, Pushed(<<"setpriv">>, outcome)) ELSE @]
    /\ UNCHANGED <<loaded_abis, keys, private_keys, _key_to_acc, deployRest>>

\* "ec, _ = self.add_permission(...); assert ec == 0"
DeployAddPermission(outcome) ==
    /\ dep.pc = "permission"
    /\ LET submitted == dep.account_name \in DOMAIN keys
           error == IF ~submitted THEN "KeyError"
                    ELSE IF outcome = "raised" THEN "Exception"
                    ELSE IF outcome = "rejected" THEN "AssertionError"
                    ELSE ""
       IN  /\ outcome \in outcomes_when(submitted)
           /\ dep' = [deploy_goes_on(dep, error, "verify") EXCEPT
                        !.log = IF submitted
                                THEN Append(@, Pushed(<<"updateauth">>, outcome)) ELSE @]
    /\ UNCHANGED <<loaded_abis, keys, private_keys, _key_to_acc, deployRest>>

\* the comparison of sha256(wasm) with the hash of the code the remote
\* node holds; remote is that code, or "error" for a get_code that raises
DeployVerify(remote) ==
    /\ dep.pc = "verify"
    /\ IF ~dep.verify_hash
       THEN /\ remote = "none"
            /\ dep' = [dep EXCEPT !.pc = "load"]
       ELSE /\ remote \in Wasms \cup {"error"}
            /\ LET error == IF remote = "error" THEN "Exception"
                            ELSE IF hash_verified(dep.verify_hash, sha256(dep.wasm),
                                                  sha256(remote))
                            THEN "" ELSE "ContractDeployError"
               IN  dep' = [deploy_goes_on(dep, error, "load") EXCEPT
                             !.log = Append(@, [e |-> "get_code", remote |-> remote])]
    /\ UNCHANGED <<loaded_abis, keys, private_keys, _key_to_acc, deployRest>>

\* self.load_abi(account_name, abi)
DeployLoadAbi ==
    /\ dep.pc = "load"
    /\ loaded_abis' = load_abi(loaded_abis, dep.account_name, dep.abi)
    /\ dep' = [dep EXCEPT !.pc = "push", !.log = Append(@, [e |-> "load_abi"])]
    /\ UNCHANGED <<keys, private_keys, _key_to_acc, deployRest>>

\* "ec, res = self.push_actions(actions, ...)" and what follows it
DeployPush(outcome) ==
    /\ dep.pc = "push"
    /\ outcome \in SubmitOutcomes
    /\ LET names == <<"setcode", "setabi">>
           r == submit_response(names, outcome)
       IN  dep' = [dep EXCEPT
                     !.log = Append(@, Pushed(names, outcome)),
                     !.pc = IF outcome # "raised" /\ "error" \notin DOMAIN r
                            THEN "returned" ELSE "raised",
                     !.exc = IF outcome = "raised" THEN "Exception"
                             ELSE IF "error" \notin DOMAIN r THEN ""
                             ELSE "ContractDeployError",
                     !.ret = IF outcome # "raised" /\ "error" \notin DOMAIN r
                             THEN r ELSE None]
    /\ UNCHANGED <<loaded_abis, keys, private_keys, _key_to_acc, deployRest>>

DeployNext ==
    \/ \E outcome \in SubmitOutcomes \cup {"none"} : DeployCreateAccount(outcome)
    \/ \E outcome \in SubmitOutcomes \cup {"none"} : DeploySetPriv(outcome)
    \/ \E outcome \in SubmitOutcomes \cup {"none"} : DeployAddPermission(outcome)
    \/ \E remote \in Wasms \cup {"error", "none"} : DeployVerify(remote)
    \/ DeployLoadAbi
    \/ \E outcome \in SubmitOutcomes : DeployPush(outcome)

DeploySpec == DeployInit /\ [][DeployNext]_vars

(***************************************************************************)
(* Claims about the submission loop.                                       *)
(***************************************************************************)
Events(m) == 1..Len(trace[m])
Ev(m, i) == trace[m][i]
IsPost(m, i) == Ev(m, i).e = "post" /\ Ev(m, i).v.outcome # "raise"

\* C1: a response with an 'error' field that arrives while attempts remain
\* is followed by a new attempt (encode, then sign, then POST); the first
\* response without an 'error' field ends the loop: it is the last step of
\* the call, no POST follows it, and it is the value returned.
C1_ErrorRetriesAcceptEnds ==
    \A m \in Modes : \A i \in Events(m) :
        IsPost(m, i) =>
            IF "error" \in DOMAIN Ev(m, i).v.resp
            THEN Ev(m, i).v.left > 0 =>
                   /\ i = Len(trace[m]) => pc[m] = "encode"
                   /\ i + 1 <= Len(trace[m]) => Ev(m, i + 1).e = "encode"
                   /\ i + 2 <= Len(trace[m]) => Ev(m, i + 2).e = "sign"
                   /\ (i + 3 <= Len(trace[m]) /\ Ev(m, i + 2).v.outcome = "ok")
                          => Ev(m, i + 3).e = "post"
            ELSE /\ i = Len(trace[m])
                 /\ pc[m] = "returned"
                 /\ exc[m] = ""
                 /\ res[m] = Ev(m, i).v.resp

\* a call whose first POST was rejected, that POSTed again and was accepted
C1_Witness ==
    \E m \in Modes : \E i, j \in Events(m) :
        /\ i < j
        /\ IsPost(m, i) /\ "error" \in DOMAIN Ev(m, i).v.resp
        /\ IsPost(m, j) /\ "error" \notin DOMAIN Ev(m, j).v.resp
        /\ pc[m] = "returned"

\* every attempt of the call reached the node and was answered with an error
AllAttemptsRejected(m) ==
    /\ nPost(m) >= 1
    /\ nEnc(m) = nPost(m)
    /\ \A i \in Events(m) : Ev(m, i).e = "post" => Ev(m, i).v.outcome = "error"

\* C2: when every attempt received a response with an 'error' field, the
\* call does not raise: it returns the response of its last attempt, the
\* one that used up the retry budget.
C2_ExhaustedReturnsLastError ==
    \A m \in Modes :
        (Terminal(m) /\ AllAttemptsRejected(m)) =>
            /\ pc[m] = "returned"
            /\ exc[m] = ""
            /\ Ev(m, Len(trace[m])).e = "post"
            /\ res[m] = Ev(m, Len(trace[m])).v.resp
            /\ "error" \in DOMAIN res[m]
            /\ retries[m] = 0
            /\ nPost(m) = retries_init(m)

\* a call that ended after all its attempts, more than one, were rejected
C2_Witness ==
    \E m \in Modes :
        Terminal(m) /\ AllAttemptsRejected(m) /\ nPost(m) >= 2

\* C3 (as claimed): a call performs at most as many Encoding attempts,
\* Signing attempts and POSTs as its retry budget (2 blocking, 3 cooperative),
\* whatever the signer and the node answer.
C3_AttemptsWithinBudget ==
    \A m \in Modes :
        /\ nEnc(m) <= retries_init(m)
        /\ nSign(m) <= retries_init(m)
        /\ nPost(m) <= retries_init(m)

\* the signer double reports a non-canonical signature on its first two
\* invocations and a canonical one on the third; the node accepts
TwoNonCanonicalThenAccepted ==
    /\ Len(sigScript) >= 3
    /\ SubSeq(sigScript, 1, 3) = <<"nc", "nc", "ok">>
    /\ Len(nodeScript) >= 1
    /\ nodeScript[1] = "ok"

\* C4 (as claimed): in each mode, with a signer that is non-canonical twice
\* and canonical the third time and a node that accepts, the call performs
\* exactly three Encoding-Signing cycles and one POST and returns the accepted
\* response; the non-canonical signature is not surfaced.
C4_ThirdSignatureAccepted ==
    \A m \in Modes :
        (Terminal(m) /\ TwoNonCanonicalThenAccepted) =>
            /\ pc[m] = "returned"
            /\ exc[m] = ""
            /\ Count(m, "encode") = 3
            /\ nSign(m) = 3
            /\ nPost(m) = 1
            /\ res[m] = node_response("ok", 1)

DispatcherErrors ==
    {"ValueError", "AssertionError", "TypeError", "AttributeError",
     "StopIteration", "RuntimeError"}

\* C8: a failure of the dispatcher while encoding an action is fatal: it is
\* the last step of the call, the exception leaves the loop, no attempt
\* follows, and the call signs nothing and POSTs nothing.
C8_DispatcherFailureIsFatal ==
    \A m \in Modes : \A i \in Events(m) :
        Ev(m, i).e = "encode_failed" =>
            /\ i = Len(trace[m])
            /\ pc[m] = "raised"
            /\ exc[m] \in DispatcherErrors
            /\ Ev(m, i).v.err \in DispatcherErrors
            /\ nEnc(m) = 1
            /\ nSign(m) = 0
            /\ nPost(m) = 0

\* a call that ended on an unregistered bare type name
C8_Witness ==
    \E m \in Modes :
        /\ pc[m] = "raised"
        /\ trace[m] # <<>>
        /\ Ev(m, Len(trace[m])).e = "encode_failed"
        /\ Ev(m, Len(trace[m])).v.err = "AttributeError"

\* the steps of a call: what was encoded, signed and POSTed, and the answers
Steps(m) ==
    [i \in Events(m) |->
        IF Ev(m, i).e = "post"
        THEN Event("post", [outcome |-> Ev(m, i).v.outcome, tx |-> Ev(m, i).v.tx,
                            resp |-> Ev(m, i).v.resp])
        ELSE Ev(m, i)]

\* C9 (as claimed): on the same inputs, signer outcomes and node responses
\* the blocking and the cooperative loop perform the same steps with the
\* same transactions and end with the same result.
C9_ModesEquivalent ==
    (Terminal("sync") /\ Terminal("async")) =>
        /\ Steps("sync") = Steps("async")
        /\ pc["sync"] = pc["async"]
        /\ res["sync"] = res["async"]
        /\ exc["sync"] = exc["async"]

\* the transaction t carries the caller's actions, in order, each with its
\* data replaced by the ABI encoding of that action's data
CarriesCallerActions(t) ==
    /\ Len(t.actions) = Len(actions)
    /\ \A j \in 1..Len(actions) :
         /\ t.actions[j].account = actions[j].account
         /\ t.actions[j].name = actions[j].name
         /\ t.actions[j].authorization = actions[j].authorization
         /\ _pack_abi_data(loaded_abis, actions[j]).ok
         /\ t.actions[j].data = _pack_abi_data(loaded_abis, actions[j]).out

\* C10: in every attempt, the transaction that is encoded, signed and POSTed
\* has the caller's actions in the caller's order, none dropped, duplicated
\* or reordered, each with the encoding of its own data.
C10_ActionOrderPreserved ==
    \A m \in Modes : \A i \in Events(m) :
        Ev(m, i).e \in {"encode", "sign", "post"} => CarriesCallerActions(Ev(m, i).v.tx)

\* a second attempt that encoded two different actions
C10_Witness ==
    \E m \in Modes :
        /\ Count(m, "encode") >= 2
        /\ Len(actions) = 2
        /\ actions[1] # actions[2]
        /\ Ev(m, Len(trace[m])).e = "post"

(***************************************************************************)
(* Claims about _pack_abi_data.                                            *)
(***************************************************************************)
PackedAction == actions[1]
Called == packed # NotPacked
AbiLoaded == PackedAction.account \in DOMAIN loaded_abis
AbiOf == loaded_abis[PackedAction.account]
HasStructs == AbiLoaded /\ "structs" \in DOMAIN AbiOf
Matches == {i \in 1..Len(AbiOf.structs) : AbiOf.structs[i].name = PackedAction.name}
TheStruct == AbiOf.structs[CHOOSE i \in Matches : TRUE]
Resolved == HasStructs /\ Cardinality(Matches) = 1 /\ PackedAction.data.list
TheFields == TheStruct.fields
TheData == PackedAction.data.items

\* C5 (as claimed): _pack_abi_data raises whenever the number of data values
\* differs from the number of fields of the resolved struct, be it fewer or
\* more values; no partially encoded output is returned.
C5_FieldCountMismatchFails ==
    (Called /\ Resolved /\ Len(TheData) # Len(TheFields)) => ~packed.ok

\* the encoding of values i..n under the declared types of fields i..n
RECURSIVE positional(_, _, _, _, _)
positional(account, name, fields, data, i) ==
    IF i > Len(data) THEN Return(<<>>)
    ELSE LET r == pack_field(account, name, fields[i].name, fields[i].type, data[i])
             rest == positional(account, name, fields, data, i + 1)
         IN  IF ~r.ok THEN r
             ELSE IF ~rest.ok THEN rest
             ELSE Return(r.out \o rest.out)

\* C6 (as claimed): for a data list as long as the struct's field list the
\* bytes are the concatenation, in order, of the encoding of the i-th value
\* under the declared type of the i-th field, also when two fields of the
\* struct share a name.
C6_PositionalEncoding ==
    (Called /\ Resolved /\ Len(TheData) = Len(TheFields)) =>
        packed = positional(PackedAction.account, PackedAction.name,
                            TheFields, TheData, 1)

\* C7: _pack_abi_data raises when the loaded ABI has no struct named like the
\* action and when it has more than one; it returns bytes only when exactly
\* one matches; with no ABI loaded for the account it raises ValueError
\* whatever the data is.
C7_StructResolution ==
    Called =>
        /\ ~AbiLoaded => packed = Raise("ValueError")
        /\ (HasStructs /\ Cardinality(Matches) # 1) => packed = Raise("AssertionError")
        /\ packed.ok => (HasStructs /\ Cardinality(Matches) = 1)

\* a call that failed on an ABI with two structs named like the action
C7_Witness ==
    Called /\ HasStructs /\ Cardinality(Matches) = 2 /\ ~packed.ok

(***************************************************************************)
(* Claims about push=False and about the public wrappers.                  *)
(***************************************************************************)
\* C11: with push=False the blocking call queries no chain info, signs
\* nothing and POSTs nothing; it encodes once and returns, on the first
\* iteration, the transaction object with ref_block_num = 0 and
\* ref_block_prefix = 0; push_action(push=False) returns that object itself,
\* not an (exit code, response) pair.
C11_UnpushedReturnsUnsignedTx ==
    ~push =>
        /\ \A i \in Events("sync") : Ev("sync", i).e \in {"encode", "encode_failed"}
        /\ Len(trace["sync"]) <= 1
        /\ sigScript = <<>> /\ nodeScript = <<>>
        /\ pc["sync"] \notin {"sign", "post"}
        /\ pc["sync"] = "returned" =>
              /\ trace["sync"] = <<Event("encode", [tx |-> ret["sync"]])>>
              /\ ret["sync"].ref_block_num = 0
              /\ ret["sync"].ref_block_prefix = 0
              /\ CarriesCallerActions(ret["sync"])
        /\ (api = "push_action" /\ api_out # NoOut /\ pc["sync"] = "returned") =>
              api_out = [kind |-> "value", v |-> ret["sync"]]

\* push_action(push=False) has returned the transaction object
C11_Witness ==
    /\ ~push
    /\ api = "push_action"
    /\ api_out = [kind |-> "value", v |-> ret["sync"]]
    /\ pc["sync"] = "returned"

\* the response of the last POST of the blocking call
LastPostResp == Ev("sync", Len(trace["sync"])).v.resp

\* C18: push_action (push=True) and push_actions return the pair (1, res)
\* exactly when the response res returned by the submission loop has an
\* 'error' field and (0, res) otherwise; res is the loop's response
\* unmodified, and only the presence of the field decides the code.
C18_ExitCodeFromErrorField ==
    (api_out # NoOut /\ pc["sync"] = "returned" /\ push) =>
        /\ api_out.kind = "pair"
        /\ api_out.res = ret["sync"]
        /\ api_out.res = LastPostResp
        /\ api_out.ec \in {0, 1}
        /\ api_out.ec = 1 <=> "error" \in DOMAIN LastPostResp

\* a wrapper returned (1, res) for a rejected submission
C18_Witness ==
    /\ api_out # NoOut
    /\ push
    /\ pc["sync"] = "returned"
    /\ api_out.kind = "pair"
    /\ api_out.ec = 1

\* a POST of call m whose transport raised instead of returning a response
TransportFailed(m, i) == Ev(m, i).e = "post" /\ Ev(m, i).v.outcome = "raise"

\* C12 (as claimed): a POST whose transport raises is treated exactly like
\* a chain rejection: it consumes one unit of the retry budget and, if
\* budget remains, a new Encoding attempt starts instead of the call
\* aborting.
C12_TransportFailureIsRejection ==
    \A m \in Modes : \A i \in Events(m) :
        TransportFailed(m, i) =>
            /\ pc[m] # "raised"
            /\ i = Len(trace[m]) =>
                  /\ retries[m] = Ev(m, i).v.left
                  /\ pc[m] = after_post(node_response("error", i), Ev(m, i).v.left)

(***************************************************************************)
(* Claims about the type dispatch of one field.                            *)
(***************************************************************************)
TheField == TheFields[1]
TheType == TheField.type
TheValue == TheData[1]
ArraySuffix == <<"[", "]">>
EndsWith(typ, x) ==
    Len(typ) >= Len(x) /\ SubSeq(typ, Len(typ) - Len(x) + 1, Len(typ)) = x

\* the stream after one call of the encoder fn with an inner type and a value
OneCall(fn, inner, value) == Return(<<[fn |-> <<fn>>, typ |-> inner, val |-> value]>>)

\* C13: a field whose type ends in '[]' goes to the array operation with the
\* type minus the trailing '[]' as element type; a field whose type ends in
\* '?' goes to the optional operation with the type minus the trailing '?';
\* so 'T?[]' is an array of 'T?' and 'T[]?' an optional of 'T[]'.
C13_ArrayAndOptionalSuffix ==
    Called =>
        /\ EndsWith(TheType, ArraySuffix) =>
              \E inner \in DispatchTypes :
                  /\ inner \o ArraySuffix = TheType
                  /\ packed = OneCall("array", inner, TheValue)
        /\ EndsWith(TheType, <<"?">>) =>
              \E inner \in DispatchTypes :
                  /\ inner \o <<"?">> = TheType
                  /\ packed = OneCall("optional", inner, TheValue)
        /\ \A b \in BareTypes :
              /\ TheType = b \o <<"?">> \o ArraySuffix
                    => packed = OneCall("array", b \o <<"?">>, TheValue)
              /\ TheType = b \o ArraySuffix \o <<"?">>
                    => packed = OneCall("optional", b \o ArraySuffix, TheValue)

\* a field of type 'name?[]' was packed
C13_Witness ==
    /\ Called
    /\ TheType = <<"name", "?", "[", "]">>
    /\ packed = OneCall("array", <<"name", "?">>, TheValue)

\* the (account, action, field) combination of the nested ABI case
IsSetAbiField ==
    /\ PackedAction.account = "eosio"
    /\ PackedAction.name = "setabi"
    /\ TheField.name = "abi"

\* C14 (as claimed): a field of type 'T$' is encoded exactly as a field of
\* bare type T with the same value: the encoder of T is invoked on the value
\* and the call succeeds whenever encoding the bare type would.
C14_ExtensionAsBareType ==
    \A b \in BareTypes :
        (Called /\ TheType = b \o <<"$">>) =>
            LET bare == pack_field("token", "transfer", "from", b, TheValue)
            IN  bare.ok => packed = bare

\* C15: the value is serialized with the nested ABI schema and appended as
\* a bytes blob exactly when account = 'eosio', name = 'setabi', field =
\* 'abi' and the type has no suffix; every other combination is dispatched
\* by the declared type alone.
C15_NestedAbiOnlyForSetAbi ==
    Called =>
        IF IsSetAbiField /\ TheType \in BareTypes
        THEN packed = Return(<<[fn |-> <<"bytes">>, typ |-> <<>>,
                                val |-> pack_abi_raw(TheValue)]>>)
        ELSE /\ packed.ok => packed.out[1].fn # <<"bytes">>
             /\ packed = pack_field("token", "transfer", "from", TheType, TheValue)

\* eosio::setabi's field abi was packed as the nested ABI's bytes
C15_Witness ==
    /\ Called
    /\ IsSetAbiField
    /\ TheType = <<"bogus">>
    /\ packed.ok
    /\ packed.out[1].fn = <<"bytes">>

(***************************************************************************)
(* Claims about the ABI registry.                                          *)
(***************************************************************************)
\* the load_abi calls for an account among the first n calls
LoadsFor(account, n) == {i \in 1..n : loads[i].account = account}

\* the ABI of the most recent of the first n load_abi calls for the account
LastLoaded(account, n) ==
    IF LoadsFor(account, n) = {} THEN Raise("ValueError")
    ELSE Return(loads[Max(LoadsFor(account, n))].abi)

\* the registry holding, for each account, the ABI it was last loaded with
LatestRegistry(n) ==
    [a \in {b \in RegAccounts : LoadsFor(b, n) # {}} |-> LastLoaded(a, n).out]

\* C16: get_loaded_abi(account) returns the ABI of the most recent load_abi
\* for that account and raises ValueError for an account never loaded; a
\* load for one account leaves the other accounts' entries as they were;
\* every encode of an account's action uses this entry.
C16_RegistryKeepsLatestLoad ==
    /\ \A a \in RegAccounts :
          get_loaded_abi(loaded_abis, a) = LastLoaded(a, Len(loads))
    /\ got.op = "get" => got.r = LastLoaded(got.account, got.at)
    /\ got.op = "pack" =>
          /\ got.r = _pack_abi_data(LatestRegistry(got.at), got.action)
          /\ LoadsFor(got.account, got.at) = {} => got.r = Raise("ValueError")

\* an account was loaded twice with different ABIs and then read
C16_Witness ==
    /\ got.op = "get"
    /\ \E i, j \in LoadsFor(got.account, got.at) :
          i < j /\ loads[i].abi # loads[j].abi /\ j = Max(LoadsFor(got.account, got.at))
    /\ \E i \in 1..got.at : loads[i].account # got.account
    /\ got.r.ok

(***************************************************************************)
(* Claims about the key store.                                             *)
(***************************************************************************)
\* C19 (as claimed): a successful assign_key(account, public_key) leaves
\* keys[account] equal to the given public key and private_keys[account]
\* equal to the private key that public key derives from.
C19_AssignKeyAssignsGivenKey ==
    (key_out.op = "assign" /\ key_out.ok) =>
        /\ keys[key_out.account] = key_out.public_key
        /\ get_pub_key(private_keys[key_out.account]) = key_out.public_key

(***************************************************************************)
(* Claims about the retry after a non-canonical signature.                 *)
(***************************************************************************)
IsSign(m, i) == Ev(m, i).e = "sign"

\* sign event j is the next invocation of the signer after sign event i
NextSign(m, i, j) ==
    /\ i < j
    /\ IsSign(m, i) /\ IsSign(m, j)
    /\ \A k \in Events(m) : (i < k /\ k < j) => ~IsSign(m, k)

\* C20 (as claimed): when a call goes back to Encoding after a non-canonical
\* signature, the transaction handed to the signer on the new attempt
\* differs from the one of the previous attempt, so that the same input is
\* never signed twice within one call.
C20_ResignedInputDiffers ==
    \A m \in Modes : \A i, j \in Events(m) :
        (NextSign(m, i, j) /\ Ev(m, i).v.outcome = "nc")
            => Ev(m, j).v.tx # Ev(m, i).v.tx

(***************************************************************************)
(* Claims about concurrent cooperative submissions.                        *)
(***************************************************************************)
\* the transaction a response answers
AnsweredTx(resp) ==
    IF "error" \in DOMAIN resp THEN resp.request ELSE resp.transaction_id

\* the transaction x carries the actions of task t, each encoded with the
\* ABIs that were the latest after the first n load_abi calls
EncodedWithLatest(t, x, n) ==
    /\ Len(x.actions) = Len(TaskActions(t))
    /\ \A j \in 1..Len(x.actions) :
         /\ x.actions[j].account = TaskActions(t)[j].account
         /\ x.actions[j].name = TaskActions(t)[j].name
         /\ x.actions[j].authorization = TaskActions(t)[j].authorization
         /\ x.actions[j].data =
                _pack_abi_data(LatestRegistry(n), TaskActions(t)[j]).out

\* C17: however concurrent cooperative submissions interleave with load_abi
\* and import_key calls, the transaction of every attempt is encoded with
\* one whole ABI version, the latest loaded when the attempt was encoded,
\* and signed with the caller's key; a submission returns the response to
\* its own last POST, never the response or transaction of another one.
C17_ConcurrentSubmissionsIsolated ==
    \A t \in Tasks :
        /\ tasks[t].sent # None =>
              /\ EncodedWithLatest(t, tasks[t].sent.tx, tasks[t].sent.at)
              /\ tasks[t].sent.key = TaskKey(t)
        /\ tasks[t].pc = "returned" =>
              /\ tasks[t].ret = tasks[t].res
              /\ AnsweredTx(tasks[t].ret) = tasks[t].sent.tx
              /\ \A u \in Tasks \ {t} :
                    tasks[u].sent # None => AnsweredTx(tasks[t].ret) # tasks[u].sent.tx

\* two submissions were in flight together, an ABI was re-loaded and a key
\* imported meanwhile, one was retried and has returned
C17_Witness ==
    \E t, u \in Tasks :
        /\ t # u
        /\ tasks[t].pc = "returned"
        /\ tasks[t].retries < ASYNC_RETRIES - 1
        /\ tasks[u].pc = "post"
        /\ tasks[t].sent.at > tasks[u].sent.at
        /\ LatestRegistry(tasks[t].sent.at) # LatestRegistry(tasks[u].sent.at)
        /\ key_out.op = "import"

(***************************************************************************)
(* Claims about what one call keeps fixed over its attempts.               *)
(***************************************************************************)
IsEncode(m, i) == Ev(m, i).e = "encode"

\* the number of the attempt that event i belongs to
AttemptOf(m, i) ==
    Cardinality({j \in 1..i : Ev(m, j).e \in {"encode", "encode_failed"}})

\* a transaction without its time-sensitive field
WithoutExpiration(x) == [x EXCEPT !.expiration = 0]

\* the header fields of x are those derived from the chain info and the
\* caller's limits
HeaderFrom(x, info) ==
    /\ x.ref_block_num = get_tapos_info(info.last_irreversible_block_id).ref_block_num
    /\ x.ref_block_prefix = get_tapos_info(info.last_irreversible_block_id).ref_block_prefix
    /\ x.max_cpu_usage_ms = max_cpu_usage_ms
    /\ x.max_net_usage_words = 0
    /\ x.delay_sec = 0
    /\ x.context_free_actions = <<>>
    /\ x.context_free_data = <<>>
    /\ x.transaction_extensions = <<>>

\* C22 (as claimed): every call of the submission loop queries the chain
\* info exactly once, and the transaction of every attempt has the
\* ref_block_num and ref_block_prefix derived from that info.
C22_AlwaysQueriesChainInfo ==
    \A m \in Modes :
        pc[m] # "idle" =>
            /\ Count(m, "get_info") = 1
            /\ \A i \in Events(m) :
                  IsEncode(m, i) => HeaderFrom(Ev(m, i).v.tx, ChainInfo)

\* C22 (amended): a call that pushes (every cooperative call; a blocking
\* call with push=True) queries the chain info exactly once, before its
\* first attempt; every attempt uses the chain_id, ref_block_num and
\* ref_block_prefix of that one info, the same resource limits, delay_sec = 0
\* and empty context-free lists; only the expiration, the time of the
\* attempt plus 15 minutes, differs between attempts.
C22_PushingCallQueriesOnce ==
    \A m \in Modes :
        (pc[m] # "idle" /\ (m = "async" \/ push)) =>
            /\ Ev(m, 1).e = "get_info"
            /\ Count(m, "get_info") = 1
            /\ \A i \in Events(m) :
                  /\ IsEncode(m, i) =>
                        /\ HeaderFrom(Ev(m, i).v.tx, Ev(m, 1).v)
                        /\ Ev(m, i).v.tx.expiration =
                               utcnow(AttemptOf(m, i)) + EXPIRATION_SECONDS
                  /\ Ev(m, i).e = "sign" => Ev(m, i).v.chain_id = Ev(m, 1).v.chain_id
            /\ \A i, j \in Events(m) :
                  (IsEncode(m, i) /\ IsEncode(m, j)) =>
                      WithoutExpiration(Ev(m, i).v.tx) = WithoutExpiration(Ev(m, j).v.tx)

\* a call made two attempts whose transactions differ in the expiration
C22_Witness ==
    \E m \in Modes : \E i, j \in Events(m) :
        /\ i < j
        /\ IsEncode(m, i) /\ IsEncode(m, j)
        /\ Ev(m, i).v.tx.expiration # Ev(m, j).v.tx.expiration
        /\ Count(m, "get_info") = 1

(***************************************************************************)
(* Claims about the caller's input.                                        *)
(***************************************************************************)
\* C27: no step of _create_and_push_tx or _a_create_and_push_tx changes the
\* caller's list of actions or the data of one of its actions, so every
\* attempt encodes the original positional values.
C27_CallerActionsUntouched == [][actions' = actions]_vars

\* a call ended after more than one attempt
C27_Witness ==
    \E m \in Modes :
        /\ Terminal(m)
        /\ Count(m, "encode") >= 2
        /\ \A j \in 1..Len(actions) : actions[j].data.list

(***************************************************************************)
(* Claims about get_table / aget_table.                                    *)
(***************************************************************************)
\* the rows the node holds from the call's lower bound on, in key order
RowsOfTable == [i \in 1..Max({0, tbl.n - tbl.first + 1}) |-> tbl.first + i - 1]

\* the requests that a paged read of the table takes
PagesOfTable == Max({1, (Len(RowsOfTable) + tbl.limit - 1) \div tbl.limit})

NodeServed == \A i \in 1..Len(tbl.asked) : ~tbl.asked[i].failed

\* C21 (as claimed): against a node that serves the table in pages,
\* get_table and aget_table ask each follow-up request from the previous
\* response's next_key on, stop at the first response without more rows
\* and return every row exactly once, in the order served.
C21_TableReadInPages ==
    NodeServed =>
        /\ \A i \in 2..Len(tbl.asked) :
              tbl.asked[i].params.lower_bound = tbl.asked[i - 1].next_key
        /\ Len(tbl.asked) <= PagesOfTable
        /\ tbl.pc = "returned" => tbl.rows = RowsOfTable

(***************************************************************************)
(* Claims about get_node_activations.                                      *)
(***************************************************************************)
\* how often the feature of ordinal k occurs in a list of runs
Occurrences(runs, k) ==
    Cardinality({i \in 1..Len(runs) : runs[i][1] <= k /\ k <= runs[i][2]})

\* the runs list their features by ascending ordinal
Ascending(runs) ==
    /\ \A i \in 1..Len(runs) : runs[i][1] <= runs[i][2]
    /\ \A i \in 1..Len(runs) - 1 : runs[i][2] < runs[i + 1][1]

\* the call was answered by the node's last page and has ended
ActivationsEnded == feat.pc \in {"returned", "raised"}

\* C25 (as claimed): get_node_activations returns, for any target node,
\* every activated feature other than the one of the lowest ordinal exactly
\* once, by ascending ordinal, paging in steps of 250 ordinals until a
\* response has no 'more'.
C25_AllFeaturesButFirst ==
    ActivationsEnded =>
        /\ feat.pc = "returned"
        /\ Ascending(feat.out)
        /\ \A k \in 0..MaxFeatures :
              Occurrences(feat.out, k) = IF 1 <= k /\ k < feat.n THEN 1 ELSE 0
        /\ feat.requests = (Max({feat.n, 1}) + ACTIVATIONS_STEP - 1) \div ACTIVATIONS_STEP

(***************************************************************************)
(* Claims about wait_blocks.                                               *)
(***************************************************************************)
\* wait_blocks has returned no earlier than n blocks after its start
ReturnedInTime ==
    wb.pc = "returned" =>
        /\ wb.current_block >= wb.start + wb.n
        /\ wb.head >= wb.start + wb.n

\* C26: wait_blocks(n) returns only when the node's head block number is at
\* least the one read at the start of the call plus n, never earlier, and
\* it does return when the node keeps producing blocks.
C26_WaitsForBlocks == []ReturnedInTime /\ <>(wb.pc = "returned")

\* a call that had to sleep has returned
C26_Witness ==
    /\ wb.pc = "returned"
    /\ wb.n >= 2
    /\ wb.current_block > wb.start + wb.n

(***************************************************************************)
(* Claims about the key store under account creation.                      *)
(***************************************************************************)
\* C28: after any sequence of import_key, assign_key, create_account and
\* create_account_staked calls, keys and private_keys hold entries for
\* exactly the same accounts, and keys[account] is the public key derived
\* from private_keys[account].
C28_KeyPairsConsistent ==
    /\ DOMAIN keys = DOMAIN private_keys
    /\ \A account \in DOMAIN keys :
          keys[account] = get_pub_key(private_keys[account])

\* an account was created with a given key whose first owner had since
\* imported another key, so the pair it received is not the one asked for
C28_Witness ==
    /\ key_out.op \in {"create_account", "create_account_staked"}
    /\ key_out.ok
    /\ key_out.outcome = "accepted"
    /\ keys[key_out.account] # key_out.public_key

\* C29 (as claimed): a create_account whose newaccount submission is
\* rejected, or whose submission raises, leaves keys, private_keys and
\* _key_to_acc as they were before the call; an assign_key with an unknown
\* public key raises ValueError and changes none of them either.
C29_FailedCallLeavesKeyStore ==
    [][(\/ /\ key_out'.op = "create_account"
           /\ key_out'.outcome \in {"rejected", "raised"}
        \/ /\ key_out'.op = "assign"
           /\ ~key_out'.ok)
       => UNCHANGED <<keys, private_keys, _key_to_acc>>]_vars

(***************************************************************************)
(* Claims about deploy_contract.                                           *)
(***************************************************************************)
DeployEvents == 1..Len(dep.log)

\* event i is a submission that names setcode or setabi
SubmitsCode(i) ==
    /\ dep.log[i].e = "push"
    /\ \E j \in 1..Len(dep.log[i].names) :
          dep.log[i].names[j] \in {"setcode", "setabi"}

\* event i is the answer of the remote node, holding the code remote
RemoteHolds(i, remote) ==
    /\ dep.log[i].e = "get_code"
    /\ dep.log[i].remote = remote

\* the remote node answered with a code whose hash is not the local one
HashMismatch ==
    \E i \in DeployEvents, remote \in Wasms :
       RemoteHolds(i, remote) /\ sha256(remote) # sha256(dep.wasm)

C24_FailedDeployLeavesAbi ==
    dep.pc # "idle" =>
       LET n == Len(dep.log)
           submitted == n > 0 /\ SubmitsCode(n)
       IN  /\ dep.pc = "returned" =>
              /\ submitted
              /\ dep.log[n].outcome = "accepted"
              /\ dep.ret = submit_response(dep.log[n].names, "accepted")
              /\ "error" \notin DOMAIN dep.ret
           /\ (submitted /\ dep.log[n].outcome = "rejected") =>
              /\ dep.pc = "raised"
              /\ dep.exc = "ContractDeployError"
              /\ get_loaded_abi(loaded_abis, dep.account_name) = dep.before

====
